---- MODULE Spec2Model ----
(***************************************************************************)
(* Employee Checkin (hrms/hr/doctype/employee_checkin/employee_checkin.py) *)
(*                                                                         *)
(* The document store is modelled as two tables: checkins ("Employee       *)
(* Checkin", keyed by name) and attendances ("Attendance", in naming       *)
(* series order).  Every handler is one action; call holds the arguments   *)
(* of the last call, result what it did and ncalls the calls so far.       *)
(***************************************************************************)
EXTENDS Integers, Sequences, FiniteSets, TLC

VARIABLES checkins, attendances, call, result, ncalls

vars == <<checkins, attendances, call, result, ncalls>>

\* ---------------------------------------------------------------- bounds
\* longest list of logs handed to mark_attendance_and_link_log
MaxLogs == 2
\* most calls of a handler in one run
MaxCalls == 2

\* ------------------------------------------------------------ the domain
None == "None"

Employees == {"EMP-1", "EMP-2"}

CheckinNames == {"CHK-1", "CHK-2"}

Dates == {"2024-01-01", "2024-01-02"}

\* the statuses callers hand over: the four of the docstring and one other
\* status of the Attendance doctype
Statuses == {"Present", "Absent", "Half Day", "Skip", "On Leave"}

\* name of the i-th Attendance of the naming series
AttendanceName(i) == <<"ATT-1", "ATT-2", "ATT-3", "ATT-4", "ATT-5">>[i]

\* non-empty lists without repetition, at most n long, over S
ListsOver(S, n) ==
    {s \in UNION {[1..k -> S] : k \in 1..n} : \A i, j \in DOMAIN s : s[i] = s[j] => i = j}

\* ------------------------------------------------------- query helpers
\* update `Employee Checkin` set skip_auto_attendance = 1 where name in log_names
skip_attendance_in_checkins_everywhere(tbl, log_names) ==
    [n \in DOMAIN tbl |-> [tbl[n] EXCEPT !.skip_auto_attendance = 1]]

skip_attendance_in_checkins(tbl, log_names) ==
    [n \in DOMAIN tbl |->
        IF n \in log_names THEN [tbl[n] EXCEPT !.skip_auto_attendance = 1] ELSE tbl[n]]

\* update `Employee Checkin` set attendance = attendance_id where name in log_names
update_attendance_in_checkins_everywhere(tbl, log_names, attendance_id) ==
    [n \in DOMAIN tbl |-> [tbl[n] EXCEPT !.attendance = attendance_id]]

update_attendance_in_checkins(tbl, log_names, attendance_id) ==
    [n \in DOMAIN tbl |->
        IF n \in log_names THEN [tbl[n] EXCEPT !.attendance = attendance_id] ELSE tbl[n]]

\* frappe.db.savepoint / frappe.db.rollback(save_point=...): the savepoint is
\* the content of the tables when it is taken, the rollback restores it
savepoint(db) == db

rollback_nothing(db, save_point) == db

rollback(db, save_point) == save_point

\* The module defines add_comment_in_checkins twice; Python binds the name to
\* the definition executed last.
add_comment_in_checkins_defs ==
    << [line |-> 298, params |-> <<"log_names", "error_message">>],
       [line |-> 310, params |-> <<"log_names", "duplicate", "overlapping">>] >>

add_comment_in_checkins_bound ==
    add_comment_in_checkins_defs[Len(add_comment_in_checkins_defs)]

\* a call with positional arguments only: TypeError unless one per parameter
CallRaisesTypeError(def, args) == Len(args) # Len(def.params)

\* ------------------------------------------------ the Attendance doctype
\* Attendance.submit(): validation runs first (an attendance of the employee
\* on that date already exists, or another validation fails: failure =
\* "validate"), then the record is written with docstatus 1, then the
\* submit hooks run (failure = "on_submit": a ValidationError after the write).
DuplicateAttendance(att, employee, attendance_date) ==
    \E i \in DOMAIN att :
        att[i].employee = employee /\ att[i].attendance_date = attendance_date

submit(db, doc, failure) ==
    IF DuplicateAttendance(db.attendances, doc.employee, doc.attendance_date)
           \/ failure = "validate"
    THEN [db |-> db, name |-> None, error |-> TRUE, stage |-> "validate"]
    ELSE LET name == AttendanceName(Len(db.attendances) + 1)
             written == [db EXCEPT !.attendances =
                             Append(@, [doc EXCEPT !.name = name, !.docstatus = 1])]
         IN  [db |-> written, name |-> name, error |-> failure = "on_submit",
              stage |-> IF failure = "on_submit" THEN "on_submit" ELSE None]

\* attendance.add_comment(...)
add_comment(db, name) ==
    [db EXCEPT !.attendances =
        [i \in DOMAIN @ |-> IF @[i].name = name THEN [@[i] EXCEPT !.comments = @ + 1] ELSE @[i]]]

\* ---------------------------------------------- mark_attendance_and_link_log
Outcome(db, outcome, exception, value, validation_error, stage) ==
    [db |-> db, outcome |-> outcome, exception |-> exception, value |-> value,
     validation_error |-> validation_error, stage |-> stage]

handle_attendance_exception(db, save_point, log_names, stage) ==
    LET rolled == rollback(db, save_point)
        skipped == [rolled EXCEPT !.checkins = skip_attendance_in_checkins(@, log_names)]
    IN  IF CallRaisesTypeError(add_comment_in_checkins_bound, <<"log_names", "e">>)
        THEN Outcome(skipped, "raised", "TypeError", None, TRUE, stage)
        ELSE Outcome(skipped, "returned", None, None, TRUE, stage)

AttendanceStatusesWithLeave == {"Present", "Absent", "Half Day", "On Leave"}

AttendanceStatuses == {"Present", "Absent", "Half Day"}

FirstLogEmployee(logs) == logs[1].employee

mark_attendance_and_link_log(db, logs, attendance_status, attendance_date, failure) ==
    LET log_names == {logs[i].name : i \in DOMAIN logs}
        employee == FirstLogEmployee(logs)
    IN  IF attendance_status = "Skip"
        THEN Outcome([db EXCEPT !.checkins = skip_attendance_in_checkins(@, log_names)],
                     "returned", None, None, FALSE, None)
        ELSE IF attendance_status \in AttendanceStatuses
        THEN LET save_point == savepoint(db)
                 doc == [name |-> None, employee |-> employee,
                         attendance_date |-> attendance_date,
                         status |-> attendance_status, docstatus |-> 0, comments |-> 0]
                 att == submit(db, doc, failure)
             IN  IF att.error
                 THEN handle_attendance_exception(att.db, save_point, log_names, att.stage)
                 ELSE LET commented == IF attendance_status = "Absent"
                                       THEN add_comment(att.db, att.name) ELSE att.db
                          linked == [commented EXCEPT !.checkins =
                                        update_attendance_in_checkins(@, log_names, att.name)]
                      IN  Outcome(linked, "returned", None, att.name, FALSE, None)
        ELSE Outcome(db, "raised", "ValidationError", None, FALSE, None)

\* the rows the caller read from the store, in the order it hands them over
LogsOf(tbl, names) == [i \in DOMAIN names |-> [name |-> names[i], employee |-> tbl[names[i]].employee]]

\* what can go wrong in Attendance.submit(); only the three statuses that
\* create an Attendance reach it
Failures == {"none", "validate", "on_submit"}

FailuresOf(attendance_status) ==
    IF attendance_status \in {"Present", "Absent", "Half Day"} THEN Failures ELSE {"none"}

MarkAttendance ==
    \E names \in ListsOver(DOMAIN checkins, MaxLogs), attendance_status \in Statuses,
       attendance_date \in Dates :
      \E failure \in FailuresOf(attendance_status) :
        LET logs == LogsOf(checkins, names)
            out == mark_attendance_and_link_log(
                       [checkins |-> checkins, attendances |-> attendances],
                       logs, attendance_status, attendance_date, failure)
        IN  /\ ncalls < MaxCalls
            /\ ncalls' = ncalls + 1
            /\ checkins' = out.db.checkins
            /\ attendances' = out.db.attendances
            /\ call' = [op |-> "mark_attendance_and_link_log", logs |-> logs,
                        attendance_status |-> attendance_status,
                        attendance_date |-> attendance_date]
            /\ result' = [outcome |-> out.outcome, exception |-> out.exception,
                          value |-> out.value, validation_error |-> out.validation_error,
                          stage |-> out.stage]

NoCall == [op |-> None]

NoResult == [outcome |-> None]

Checkin(employee, time, log_type) ==
    [employee |-> employee, time |-> time, log_type |-> log_type, shift |-> None,
     device_id |-> None, attendance |-> None, skip_auto_attendance |-> 0]

\* CHK-1 is a punch of EMP-1; CHK-2 is a punch of the same employee or of another
Init ==
    /\ \E e \in Employees :
          checkins = [n \in CheckinNames |->
                         IF n = "CHK-1" THEN Checkin("EMP-1", "2019-05-08 10:48:08", "IN")
                         ELSE Checkin(e, "2019-05-08 18:02:11", "OUT")]
    /\ attendances = <<>>
    /\ call = NoCall
    /\ result = NoResult
    /\ ncalls = 0

Next == MarkAttendance

Spec == Init /\ [][Next]_vars

\* --------------------------------------------------------- working hours
\* A moment is a number of seconds, a missing moment or index the empty
\* tuple, and hours are hundredths of an hour: time_diff_in_hours rounds to
\* two decimals.  No difference of two moments of the model falls on a
\* rounding tie (a multiple of 36 s plus 18 s).
NoTime == <<>>

NoIndex == <<>>

NoLog == <<>>

Min(S) == CHOOSE x \in S : \A y \in S : x <= y

Reverse(s) == [i \in 1..Len(s) |-> s[Len(s) + 1 - i]]

RoundHundredths(seconds) ==
    IF seconds >= 0 THEN (seconds + 18) \div 36 ELSE 0 - ((18 - seconds) \div 36)

time_diff_in_hours(start, end) == RoundHundredths(end - start)

\* next((index for (index, d) in enumerate(dict_list) if d[key] == value), None)
find_index_in_dict(dict_list, key, value) ==
    LET hits == {i \in DOMAIN dict_list : dict_list[i][key] = value}
    IN  IF hits = {} THEN NoIndex ELSE <<Min(hits) - 1>>

\* logs[first_in_log_index] if first_in_log_index or first_in_log_index == 0 else None
first_in_log_of(logs) ==
    LET first_in_log_index == find_index_in_dict(logs, "log_type", "IN")
    IN  IF first_in_log_index # NoIndex THEN <<logs[first_in_log_index[1] + 1]>> ELSE NoLog

\* logs[len(logs) - 1 - last_out_log_index] if ... else None
last_out_log_of(logs) ==
    LET last_out_log_index == find_index_in_dict(Reverse(logs), "log_type", "OUT")
    IN  IF last_out_log_index # NoIndex
        THEN <<logs[Len(logs) - 1 - last_out_log_index[1] + 1]>> ELSE NoLog

Alternating == "Alternating entries as IN and OUT during the same shift"

Strictly == "Strictly based on Log Type in Employee Checkin"

FirstLast == "First Check-in and Last Check-out"

EveryValid == "Every Valid Check-in and Check-out"

Hours(total_hours, in_time, out_time) ==
    [total_hours |-> total_hours, in_time |-> in_time, out_time |-> out_time]

\* while len(logs) >= 2: total_hours += time_diff_in_hours(logs[0].time, logs[1].time); del logs[:2]
RECURSIVE alternating_pairs(_)
alternating_pairs(logs) ==
    IF Len(logs) >= 2
    THEN time_diff_in_hours(logs[1].time, logs[2].time)
             + alternating_pairs(SubSeq(logs, 3, Len(logs)))
    ELSE 0

\* one pass of the loop `for log in logs` of the strict, every-valid branch
pair_step(st, log) ==
    LET closed ==
            IF st.in_log # NoLog /\ st.out_log # NoLog
            THEN [in_log |-> NoLog, out_log |-> NoLog,
                  in_time |-> IF st.in_time = NoTime THEN <<st.in_log[1].time>> ELSE st.in_time,
                  out_time |-> <<st.out_log[1].time>>,
                  total_hours |-> st.total_hours
                      + time_diff_in_hours(st.in_log[1].time, st.out_log[1].time)]
            ELSE st
    IN  IF closed.in_log = NoLog
        THEN LET in_log == IF log.log_type = "IN" THEN <<log>> ELSE NoLog
             IN  [closed EXCEPT !.in_log = in_log,
                                !.in_time = IF in_log # NoLog /\ @ = NoTime
                                            THEN <<log.time>> ELSE @]
        ELSE IF closed.out_log = NoLog
        THEN [closed EXCEPT !.out_log = IF log.log_type = "OUT" THEN <<log>> ELSE NoLog]
        ELSE closed

RECURSIVE pair_loop(_, _, _)
pair_loop(st, logs, i) ==
    IF i > Len(logs) THEN st ELSE pair_loop(pair_step(st, logs[i]), logs, i + 1)

pair_finish_dropped(st) == st

\* after the loop: if in_log and out_log: out_time = ...; total_hours += ...
pair_finish(st) ==
    IF st.in_log # NoLog /\ st.out_log # NoLog
    THEN [st EXCEPT !.out_time = <<st.out_log[1].time>>,
                    !.total_hours = @ + time_diff_in_hours(st.in_log[1].time, st.out_log[1].time)]
    ELSE st

calculate_working_hours(logs, check_in_out_type, working_hours_calc_type) ==
    IF check_in_out_type = Alternating
    THEN LET in_time == <<logs[1].time>>
             out_time == IF Len(logs) >= 2 THEN <<logs[Len(logs)].time>> ELSE NoTime
         IN  IF working_hours_calc_type = FirstLast
             THEN Hours(time_diff_in_hours(in_time[1], logs[Len(logs)].time), in_time, out_time)
             ELSE IF working_hours_calc_type = EveryValid
             THEN Hours(alternating_pairs(logs), in_time, out_time)
             ELSE Hours(0, in_time, out_time)
    ELSE IF check_in_out_type = Strictly
    THEN IF working_hours_calc_type = FirstLast
         THEN LET first_in_log == first_in_log_of(logs)
                  last_out_log == last_out_log_of(logs)
              IN  IF first_in_log # NoLog /\ last_out_log # NoLog
                  THEN Hours(time_diff_in_hours(first_in_log[1].time, last_out_log[1].time),
                             <<first_in_log[1].time>>, <<last_out_log[1].time>>)
                  ELSE Hours(0, NoTime, NoTime)
         ELSE IF working_hours_calc_type = EveryValid
         THEN LET st == pair_finish(pair_loop(
                            [in_log |-> NoLog, out_log |-> NoLog, in_time |-> NoTime,
                             out_time |-> NoTime, total_hours |-> 0], logs, 1))
              IN  Hours(st.total_hours, st.in_time, st.out_time)
         ELSE Hours(0, NoTime, NoTime)
    ELSE Hours(0, NoTime, NoTime)

\* ---- the inputs of calculate_working_hours
\* most punches in one list of logs
MaxPunches == 4

\* 08:00:00, 09:10:00 and 12:25:00, in seconds of the day
PunchTimes == {28800, 33000, 44700}

LogTypes == {"IN", "OUT", None}

CheckInOutTypes == {Alternating, Strictly, "Manual"}

WorkingHoursCalcTypes == {FirstLast, EveryValid, "Average"}

\* non-empty lists of punches in chronological order
ChronologicalLogs(times, n) ==
    {l \in UNION {[1..k -> [time : times, log_type : LogTypes]] : k \in 1..n} :
        \A i \in 1..(Len(l) - 1) : l[i].time <= l[i + 1].time}

EmptyTable == <<>>

InitHours ==
    /\ checkins = EmptyTable
    /\ attendances = <<>>
    /\ ncalls = 0
    /\ result = NoResult
    /\ \E logs \in ChronologicalLogs(PunchTimes, MaxPunches),
          check_in_out_type \in CheckInOutTypes,
          working_hours_calc_type \in WorkingHoursCalcTypes :
            call = [op |-> "calculate_working_hours", logs |-> logs,
                    check_in_out_type |-> check_in_out_type,
                    working_hours_calc_type |-> working_hours_calc_type]

CalculateWorkingHours ==
    /\ call.op = "calculate_working_hours"
    /\ ncalls = 0
    /\ ncalls' = 1
    /\ result' = calculate_working_hours(call.logs, call.check_in_out_type,
                                         call.working_hours_calc_type)
    /\ UNCHANGED <<checkins, attendances, call>>

NextHours == CalculateWorkingHours

SpecHours == InitHours /\ [][NextHours]_vars

\* ------------------------------------------------ working hours by shift
\* A datetime is seconds since 00:00 of the day of the punches (day 0);
\* today is [day, weekday]: the day the calculation runs and
\* dt.today().weekday() (Monday is 0, Saturday 5).
lunch_time == 150

START_MIDDAY == 43200

END_MIDDAY == 48600

SecondsPerDay == 86400

\* dt.combine(date, get_time("12:00:00"))
saturday_shift_end_of(today) == today.day * SecondsPerDay + 43200

\* Return true if value is in the range [start, end]
time_in_range(start, end, value) ==
    IF start <= end THEN start <= value /\ value <= end
    ELSE start <= value \/ value <= end

last_out_time_with_seconds(out_time) == out_time % SecondsPerDay

\* datetime.time(out_time.hour, out_time.minute, 0)
last_out_time_of(out_time) == ((out_time % SecondsPerDay) \div 60) * 60

\* if out_time > shift_end: total_hours -= time_diff_in_hours(shift_end, out_time)
clip_end(total_hours, out_time, shift_end) ==
    IF out_time > shift_end
    THEN total_hours - time_diff_in_hours(shift_end, out_time) ELSE total_hours

\* if in_time < shift_start: total_hours -= time_diff_in_hours(in_time, shift_start)
clip_start(total_hours, in_time, shift_start) ==
    IF in_time < shift_start
    THEN total_hours - time_diff_in_hours(in_time, shift_start) ELSE total_hours

\* the returned tuple, with the hours before the lunch deduction and whether
\* lunch was deducted
ShiftHours(total_hours, in_time, out_time, hours_before_lunch, lunch_deducted) ==
    [total_hours |-> total_hours, in_time |-> in_time, out_time |-> out_time,
     hours_before_lunch |-> hours_before_lunch, lunch_deducted |-> lunch_deducted]

calculate_working_hours_by_shift_type(logs, today) ==
    LET is_saturday == today.weekday = 5
        shift_start == logs[1].shift_start
        shift_end == IF ~is_saturday THEN logs[1].shift_end ELSE saturday_shift_end_of(today)
        first_in_log == first_in_log_of(logs)
        last_out_log == last_out_log_of(logs)
    IN  IF first_in_log # NoLog /\ last_out_log # NoLog
        THEN LET in_time == first_in_log[1].time
                 out_time == last_out_log[1].time
             IN  IF in_time >= shift_end
                 THEN ShiftHours(0, <<in_time>>, <<out_time>>, 0, FALSE)
                 ELSE LET clipped == clip_end(clip_start(time_diff_in_hours(in_time, out_time),
                                                         in_time, shift_start),
                                              out_time, shift_end)
                          last_out_time == last_out_time_of(out_time)
                          is_midday_time_range ==
                              time_in_range(START_MIDDAY, END_MIDDAY, last_out_time)
                          is_after_early_afternoon == last_out_time > END_MIDDAY
                          deduct == ~is_midday_time_range /\ is_after_early_afternoon
                                        /\ ~is_saturday
                      IN  ShiftHours(IF deduct THEN clipped - lunch_time ELSE clipped,
                                     <<in_time>>, <<out_time>>, clipped, deduct)
        ELSE ShiftHours(0, NoTime, NoTime, 0, FALSE)

\* ---- the inputs of calculate_working_hours_by_shift_type
\* most punches in one list of logs of a shift
MaxShiftPunches == 2

\* 07:00:00, 07:30:00, 09:00:00, 13:30:59, 13:31:00, 17:30:00, 18:00:00
ShiftPunchTimes == {25200, 27000, 32400, 48659, 48660, 63000, 64800}

\* the shift of the punches: 08:00:00 to 17:00:00 of day 0
ShiftStart == 28800

ShiftEnd == 61200

\* the punches are of a Friday or a Saturday; the calculation runs that day
\* or the day after
Todays ==
    {[day |-> d, weekday |-> (w + d) % 7] : d \in {0, 1}, w \in {4, 5}}

WithShift(l) ==
    [i \in DOMAIN l |-> [time |-> l[i].time, log_type |-> l[i].log_type,
                         shift_start |-> ShiftStart, shift_end |-> ShiftEnd]]

InitShift ==
    /\ checkins = EmptyTable
    /\ attendances = <<>>
    /\ ncalls = 0
    /\ result = NoResult
    /\ \E l \in ChronologicalLogs(ShiftPunchTimes, MaxShiftPunches), today \in Todays :
            call = [op |-> "calculate_working_hours_by_shift_type",
                    logs |-> WithShift(l), today |-> today]

CalculateWorkingHoursByShiftType ==
    /\ call.op = "calculate_working_hours_by_shift_type"
    /\ ncalls = 0
    /\ ncalls' = 1
    /\ result' = calculate_working_hours_by_shift_type(call.logs, call.today)
    /\ UNCHANGED <<checkins, attendances, call>>

NextShift == CalculateWorkingHoursByShiftType

SpecShift == InitShift /\ [][NextShift]_vars

\* ------------------------------------------------ EmployeeCheckin.validate
\* most inserts and saves of Employee Checkin documents in one run
MaxSaves == 3

CheckinTimes == {"2019-05-08 10:48:08", "2019-05-08 18:02:11"}

\* name of the i-th Employee Checkin inserted
CheckinName(i) == <<"CHK-1", "CHK-2", "CHK-3", "CHK-4", "CHK-5">>[i]

\* hrms.hr.utils.validate_active_employee: every employee of the model is active
ActiveEmployees == Employees

validate_active_employee(employee) == employee \in ActiveEmployees

\* get_actual_start_end_datetime_of_shift(employee, time, True): the shift
\* assignments are fixed; EMP-1 works a shift with strict log types and EMP-2
\* one with alternating entries, both over the first time only
NoShift == <<>>

shift_actual_timings_of(employee, time) ==
    IF time # "2019-05-08 10:48:08" THEN NoShift
    ELSE IF employee = "EMP-1"
    THEN <<[name |-> "Day", determine_check_in_and_check_out |-> Strictly]>>
    ELSE <<[name |-> "Flex", determine_check_in_and_check_out |-> Alternating]>>

\* frappe.db.exists("Employee Checkin", {employee, time, name != self.name})
duplicate_log_any_type(tbl, doc) ==
    {n \in DOMAIN tbl : /\ tbl[n].employee = doc.employee
                        /\ tbl[n].time = doc.time
                        /\ n # doc.name}

\* frappe.db.exists("Employee Checkin", {employee, time, name != self.name, log_type})
duplicate_log(tbl, doc) ==
    {n \in DOMAIN tbl : /\ tbl[n].employee = doc.employee
                        /\ tbl[n].time = doc.time
                        /\ n # doc.name
                        /\ tbl[n].log_type = doc.log_type}

\* validate_duplicate_log: TRUE when it throws
validate_duplicate_log_throws(tbl, doc) == duplicate_log(tbl, doc) # {}

\* fetch_shift: TRUE when it throws
fetch_shift_throws(doc) ==
    LET shift_actual_timings == shift_actual_timings_of(doc.employee, doc.time)
    IN  /\ shift_actual_timings # NoShift
        /\ shift_actual_timings[1].determine_check_in_and_check_out = Strictly
        /\ doc.log_type = None
        /\ doc.skip_auto_attendance = 0

\* fetch_shift: the document with its shift
fetch_shift(doc) ==
    LET shift_actual_timings == shift_actual_timings_of(doc.employee, doc.time)
    IN  IF shift_actual_timings # NoShift
        THEN IF doc.attendance = None
             THEN [doc EXCEPT !.shift = shift_actual_timings[1].name] ELSE doc
        ELSE [doc EXCEPT !.shift = None]

\* validate: the exception it raises, or the validated document
validate(tbl, doc) ==
    IF ~validate_active_employee(doc.employee)
    THEN [error |-> "inactive employee", doc |-> doc]
    ELSE IF validate_duplicate_log_throws(tbl, doc)
    THEN [error |-> "duplicate log", doc |-> doc]
    ELSE IF fetch_shift_throws(doc)
    THEN [error |-> "log type required", doc |-> doc]
    ELSE [error |-> None, doc |-> fetch_shift(doc)]

\* a row of the table as a document, and back
Doc(name, row) ==
    [f \in DOMAIN row \cup {"name"} |-> IF f = "name" THEN name ELSE row[f]]

Fields(doc) == [f \in DOMAIN doc \ {"name"} |-> doc[f]]

\* the table after doc.insert() or doc.save(): unchanged when validate throws
write(tbl, doc) ==
    LET v == validate(tbl, doc)
    IN  IF v.error # None THEN tbl
        ELSE [n \in DOMAIN tbl \cup {doc.name} |->
                 IF n = doc.name THEN Fields(v.doc) ELSE tbl[n]]

SaveResult(tbl, doc) ==
    LET v == validate(tbl, doc)
    IN  [outcome |-> IF v.error # None THEN "raised" ELSE "returned",
         exception |-> IF v.error # None THEN "ValidationError" ELSE None,
         error |-> v.error]

\* frappe.new_doc("Employee Checkin") ... doc.insert()
InsertCheckin ==
    \E employee \in Employees, time \in CheckinTimes, log_type \in LogTypes :
        LET name == CheckinName(Cardinality(DOMAIN checkins) + 1)
            doc == Doc(name, Checkin(employee, time, log_type))
        IN  /\ ncalls < MaxSaves
            /\ ncalls' = ncalls + 1
            /\ checkins' = write(checkins, doc)
            /\ call' = [op |-> "insert", doc |-> doc]
            /\ result' = SaveResult(checkins, doc)
            /\ UNCHANGED attendances

\* an Employee Checkin of the store edited and saved
SaveCheckin ==
    \E name \in DOMAIN checkins, employee \in Employees, time \in CheckinTimes,
       log_type \in LogTypes :
        LET doc == [Doc(name, checkins[name]) EXCEPT !.employee = employee,
                                                     !.time = time, !.log_type = log_type]
        IN  /\ ncalls < MaxSaves
            /\ ncalls' = ncalls + 1
            /\ checkins' = write(checkins, doc)
            /\ call' = [op |-> "save", doc |-> doc]
            /\ result' = SaveResult(checkins, doc)
            /\ UNCHANGED attendances

InitCheckin ==
    /\ checkins = EmptyTable
    /\ attendances = <<>>
    /\ call = NoCall
    /\ result = NoResult
    /\ ncalls = 0

NextCheckin == InsertCheckin \/ SaveCheckin

SpecCheckin == InitCheckin /\ [][NextCheckin]_vars

\* ---------------------------------------- add_log_based_on_employee_field
\* most calls of add_log_based_on_employee_field in one run
MaxAdds == 2

\* the Employee table: name, employee_name and attendance_device_id
EmployeeTable ==
    << [name |-> "EMP-1", employee_name |-> "Ann", attendance_device_id |-> "D1"],
       [name |-> "EMP-2", employee_name |-> "Ben", attendance_device_id |-> "D2"] >>

\* frappe.db.get_values("Employee", {employee_fieldname: employee_field_value}, ...)
get_values_employee(employee_field_value) ==
    SelectSeq(EmployeeTable, LAMBDA r : r.attendance_device_id = employee_field_value)

\* `not x` of Python for the values handed over: None and the empty string
Falsy(x) == x \in {None, ""}

\* frappe.utils.cint of the values handed over for skip_auto_attendance
cint(x) == CASE x = "1" -> 1 [] x = "2" -> 2 [] OTHER -> 0

skip_requested_when_nonzero(skip_auto_attendance) == cint(skip_auto_attendance) # 0

\* if cint(skip_auto_attendance) == 1
skip_requested(skip_auto_attendance) == cint(skip_auto_attendance) = 1

AddLogResult(tbl, outcome, error, value) ==
    [tbl |-> tbl, outcome |-> outcome,
     exception |-> IF outcome = "raised" THEN "ValidationError" ELSE None,
     error |-> error, value |-> value]

add_log_based_on_employee_field(tbl, employee_field_value, timestamp, device_id, log_type, skip_auto_attendance) ==
    IF Falsy(employee_field_value) \/ Falsy(timestamp)
    THEN AddLogResult(tbl, "raised", "required", None)
    ELSE LET employee == get_values_employee(employee_field_value)
         IN  IF employee = <<>>
             THEN AddLogResult(tbl, "raised", "no employee", None)
             ELSE LET name == CheckinName(Cardinality(DOMAIN tbl) + 1)
                      doc == [Doc(name, Checkin(employee[1].name, timestamp, log_type))
                                 EXCEPT !.device_id = device_id,
                                        !.skip_auto_attendance =
                                            IF skip_requested(skip_auto_attendance)
                                            THEN 1 ELSE 0]
                      v == validate(tbl, doc)
                  IN  IF v.error # None
                      THEN AddLogResult(write(tbl, doc), "raised", v.error, None)
                      ELSE AddLogResult(write(tbl, doc), "returned", None, name)

\* ---- the arguments of add_log_based_on_employee_field
EmployeeFieldValues == {"D1", "D2", "D9", ""}

Timestamps == {"2019-05-08 10:48:08", None}

DeviceIds == {None, "DEV-1"}

SkipArguments == {"0", "1", "2"}

AddLogBasedOnEmployeeField ==
    \E employee_field_value \in EmployeeFieldValues, timestamp \in Timestamps,
       device_id \in DeviceIds, log_type \in LogTypes,
       skip_auto_attendance \in SkipArguments :
        LET out == add_log_based_on_employee_field(checkins, employee_field_value,
                       timestamp, device_id, log_type, skip_auto_attendance)
        IN  /\ ncalls < MaxAdds
            /\ ncalls' = ncalls + 1
            /\ checkins' = out.tbl
            /\ call' = [op |-> "add_log_based_on_employee_field",
                        employee_field_value |-> employee_field_value,
                        timestamp |-> timestamp, device_id |-> device_id,
                        log_type |-> log_type,
                        skip_auto_attendance |-> skip_auto_attendance]
            /\ result' = [outcome |-> out.outcome, exception |-> out.exception,
                          error |-> out.error, value |-> out.value]
            /\ UNCHANGED attendances

NextAddLog == AddLogBasedOnEmployeeField

SpecAddLog == InitCheckin /\ [][NextAddLog]_vars

\* ------------------------------------- report employee_leave_balance.execute
\* (hrms/hr/report/employee_leave_balance/employee_leave_balance.py)
\* A date is a day number.  The store the report reads is part of the call:
\* the Employee table and the Leave Application table, the latter in the
\* order of the query (posting_date desc).
\* most Leave Applications in the store
MaxLeaves == 2

Days == 1..3

get_columns ==
    <<"employee_name", "leave_type", "from_date", "to_date", "leave_approver_name",
      "status", "total_leave_days", "posting_date">>

\* a filter that is not set is None
get_conditions(filters) ==
    [status |-> "Active", name |-> filters.employee, company |-> filters.company,
     department |-> filters.department]

\* frappe.get_list("Employee", filters=conditions, ...)
get_list_employee(employees, conditions) ==
    SelectSeq(employees, LAMBDA emp :
        /\ emp.status = conditions.status
        /\ conditions.name # None => emp.name = conditions.name
        /\ conditions.company # None => emp.company = conditions.company
        /\ conditions.department # None => emp.department = conditions.department)

\* ["between", (from_date, to_date)]: both ends included
between(value, from_date, to_date) == from_date <= value /\ value <= to_date

\* frappe.db.get_list("Leave Application", filters={"employee_name": ..., ...})
get_list_leave_application(leave_applications, employee_name, filters) ==
    SelectSeq(leave_applications, LAMBDA leave :
        /\ leave.employee_name = employee_name
        /\ between(leave.from_date, filters.from_date, filters.to_date)
        /\ between(leave.to_date, filters.from_date, filters.to_date))

\* a row of data: the line of an employee (consolidated reports only) or a
\* leave; application is the Leave Application a leave row was built from
HeaderRow(emp) ==
    [kind |-> "employee", employee_name |-> emp.employee_name, leave_type |-> None,
     from_date |-> 0, to_date |-> 0, indent |-> 0, application |-> None]

LeaveRow(emp, leave, consolidate_employee_name) ==
    [kind |-> "leave",
     employee_name |-> IF consolidate_employee_name THEN None ELSE emp.employee_name,
     leave_type |-> leave.leave_type, from_date |-> leave.from_date,
     to_date |-> leave.to_date, indent |-> 1, application |-> leave.name]

\* the passes of `for emp in employees`, from the i-th on
RECURSIVE data_from(_, _, _, _, _)
data_from(employees, i, store, filters, consolidate_employee_name) ==
    IF i > Len(employees) THEN <<>>
    ELSE LET emp == employees[i]
             leaves == get_list_leave_application(store.leave_applications,
                                                  emp.employee_name, filters)
         IN  (IF consolidate_employee_name THEN <<HeaderRow(emp)>> ELSE <<>>)
                 \o [k \in DOMAIN leaves |-> LeaveRow(emp, leaves[k], consolidate_employee_name)]
                 \o data_from(employees, i + 1, store, filters, consolidate_employee_name)

get_data(store, filters) ==
    LET conditions == get_conditions(filters)
        employees == get_list_employee(store.employees, conditions)
        consolidate_employee_name ==
            Len(employees) > 1 /\ filters.consolidate_employee_name
    IN  data_from(employees, 1, store, filters, consolidate_employee_name)

\* fetched tells whether get_data ran
execute(store, filters) ==
    IF filters.to_date <= filters.from_date
    THEN [outcome |-> "raised", exception |-> "ValidationError", fetched |-> FALSE,
          columns |-> <<>>, data |-> <<>>, message |-> None, charts |-> None]
    ELSE [outcome |-> "returned", exception |-> None, fetched |-> TRUE,
          columns |-> get_columns, data |-> get_data(store, filters),
          message |-> None, charts |-> None]

\* ---- the stores and filters of the report
\* EMP-1 is Ann, active, of department Dev; EMP-2 may bear the same name
EmployeeTables ==
    {<< [name |-> "EMP-1", employee_name |-> "Ann", status |-> "Active",
         company |-> "ACME", department |-> "Dev"],
        [name |-> "EMP-2", employee_name |-> n, status |-> st,
         company |-> "ACME", department |-> d] >> :
        n \in {"Ann", "Ben"}, st \in {"Active", "Left"}, d \in {"Dev", "Ops"}}

\* name of the i-th Leave Application
LeaveName(i) == <<"LAP-1", "LAP-2", "LAP-3", "LAP-4">>[i]

\* the Leave Applications of a store: employee_name is fetched from the Employee
LeaveTables(employees) ==
    LET leave(i, e, f, t) ==
            [name |-> LeaveName(i), employee |-> employees[e].name,
             employee_name |-> employees[e].employee_name,
             leave_type |-> "Casual Leave", from_date |-> f, to_date |-> t]
        choices == {c \in [e : DOMAIN employees, f : Days, t : Days] : c.f <= c.t}
    IN  UNION {{[i \in 1..k |-> leave(i, s[i].e, s[i].f, s[i].t)] :
                    s \in [1..k -> choices]} : k \in 0..MaxLeaves}

FilterSets ==
    [from_date : Days, to_date : Days, employee : {None, "EMP-1", "EMP-2"},
     company : {None}, department : {None, "Dev"},
     consolidate_employee_name : BOOLEAN]

InitReport ==
    /\ checkins = EmptyTable
    /\ attendances = <<>>
    /\ ncalls = 0
    /\ result = NoResult
    /\ \E employees \in EmployeeTables, filters \in FilterSets :
         \E leave_applications \in LeaveTables(employees) :
            call = [op |-> "execute", filters |-> filters,
                    store |-> [employees |-> employees,
                               leave_applications |-> leave_applications]]

Execute ==
    /\ call.op = "execute"
    /\ ncalls = 0
    /\ ncalls' = 1
    /\ result' = execute(call.store, call.filters)
    /\ UNCHANGED <<checkins, attendances, call>>

NextReport == Execute

SpecReport == InitReport /\ [][NextReport]_vars

\* ------------------------------------------------------------- claims
IsMark(c) == c.op = "mark_attendance_and_link_log"

LogNames(c) == {c.logs[i].name : i \in DOMAIN c.logs}

\* C1: when creating or submitting the Attendance fails with a validation
\* error, every checkin in logs ends with skip_auto_attendance = 1 and the
\* call returns normally: no exception reaches the caller.
C1_SkippedAndReturnsNormally ==
    (IsMark(call) /\ result.validation_error) =>
        /\ \A n \in LogNames(call) : checkins[n].skip_auto_attendance = 1
        /\ result.outcome = "returned"

\* C2: a failed attempt is rolled back to the savepoint: no Attendance of
\* the attempt persists, no attendance link changes, and what earlier calls
\* wrote (Attendance records, links) is kept.
C2_RolledBackToSavepoint ==
    [][(IsMark(call') /\ result'.validation_error) =>
          /\ attendances' = attendances
          /\ \A n \in DOMAIN checkins : checkins'[n].attendance = checkins[n].attendance]_vars

\* a failure after the Attendance was written, with an earlier Attendance
\* and an earlier link in the store
C2_Witness ==
    /\ IsMark(call) /\ result.validation_error /\ result.stage = "on_submit"
    /\ Len(attendances) >= 1
    /\ \E n \in DOMAIN checkins : checkins[n].attendance # None

\* C3: without a validation error a call with Present, Absent or Half Day
\* creates exactly one submitted Attendance for the employee of logs[0] with
\* the given date and status, links exactly the checkins of logs to it and
\* returns it.
C3_OneAttendanceLinked ==
    [][(/\ IsMark(call')
        /\ call'.attendance_status \in {"Present", "Absent", "Half Day"}
        /\ ~result'.validation_error) =>
          /\ Len(attendances') = Len(attendances) + 1
          /\ SubSeq(attendances', 1, Len(attendances)) = attendances
          /\ LET new == attendances'[Len(attendances')]
             IN  /\ new.employee = call'.logs[1].employee
                 /\ new.attendance_date = call'.attendance_date
                 /\ new.status = call'.attendance_status
                 /\ new.docstatus = 1
                 /\ \A i \in 1..Len(attendances) : attendances[i].name # new.name
                 /\ result'.outcome = "returned"
                 /\ result'.value = new.name
                 /\ \A n \in DOMAIN checkins :
                       checkins'[n].attendance =
                           IF n \in LogNames(call') THEN new.name ELSE checkins[n].attendance]_vars

\* a second Attendance created while a checkin outside logs keeps its link to
\* the first
C3_Witness ==
    /\ IsMark(call) /\ call.attendance_status \in {"Present", "Absent", "Half Day"}
    /\ ~result.validation_error /\ result.outcome = "returned"
    /\ Len(attendances) = 2
    /\ \E n \in DOMAIN checkins :
          n \notin LogNames(call) /\ checkins[n].attendance = attendances[1].name
    /\ \A n \in LogNames(call) : checkins[n].attendance = attendances[2].name

\* C4: any status other than Present, Absent, Half Day and Skip raises an
\* error and leaves the Attendance records and the checkins as they were.
C4_OtherStatusRaises ==
    [][(/\ IsMark(call')
        /\ call'.attendance_status \notin {"Present", "Absent", "Half Day", "Skip"}) =>
          /\ result'.outcome = "raised"
          /\ attendances' = attendances
          /\ checkins' = checkins]_vars

\* 'On Leave' refused with an Attendance and a link already in the store
C4_Witness ==
    /\ IsMark(call) /\ call.attendance_status = "On Leave"
    /\ result.outcome = "raised"
    /\ Len(attendances) >= 1
    /\ \E n \in DOMAIN checkins : checkins[n].attendance # None

\* C5: Skip sets skip_auto_attendance = 1 on exactly the checkins of logs,
\* creates no Attendance, changes no attendance link and returns None.
C5_SkipOnlyFlagsLogs ==
    [][(IsMark(call') /\ call'.attendance_status = "Skip") =>
          /\ attendances' = attendances
          /\ \A n \in DOMAIN checkins :
                /\ checkins'[n].attendance = checkins[n].attendance
                /\ checkins'[n].skip_auto_attendance =
                       IF n \in LogNames(call') THEN 1 ELSE checkins[n].skip_auto_attendance
          /\ result'.outcome = "returned"
          /\ result'.value = None]_vars

\* Skip on one checkin while another one is neither skipped nor in logs
C5_Witness ==
    /\ IsMark(call) /\ call.attendance_status = "Skip"
    /\ \A n \in LogNames(call) : checkins[n].skip_auto_attendance = 1
    /\ \E n \in DOMAIN checkins :
          n \notin LogNames(call) /\ checkins[n].skip_auto_attendance = 0

\* ---- calculate_working_hours
HoursDone == call.op = "calculate_working_hours" /\ ncalls = 1

HasInFollowedByOut(logs) ==
    \E i, j \in DOMAIN logs :
        i < j /\ logs[i].log_type = "IN" /\ logs[j].log_type = "OUT"

InvalidCase(c) ==
    \/ c.check_in_out_type \notin
           {"Alternating entries as IN and OUT during the same shift",
            "Strictly based on Log Type in Employee Checkin"}
    \/ c.working_hours_calc_type \notin
           {"First Check-in and Last Check-out", "Every Valid Check-in and Check-out"}
    \/ /\ c.check_in_out_type = "Alternating entries as IN and OUT during the same shift"
       /\ Len(c.logs) < 2
    \/ /\ c.check_in_out_type = "Strictly based on Log Type in Employee Checkin"
       /\ ~HasInFollowedByOut(c.logs)

\* C6: for logs in chronological order total_hours is 0 in every invalid
\* case (alternating with fewer than two logs; strict with no IN, no OUT or
\* no IN followed by a later OUT; an unlisted policy string), and it is
\* never negative.
C6_ZeroForInvalidCases ==
    HoursDone =>
        /\ InvalidCase(call) => result.total_hours = 0
        /\ result.total_hours >= 0

\* the pairs of C7, as positions <<IN, OUT>>: from position k on, the first
\* IN and the first OUT after it, then on from behind that OUT
RECURSIVE PairsFrom(_, _)
PairsFrom(logs, k) ==
    LET ins == {i \in k..Len(logs) : logs[i].log_type = "IN"}
    IN  IF ins = {} THEN <<>>
        ELSE LET i == Min(ins)
                 outs == {j \in (i + 1)..Len(logs) : logs[j].log_type = "OUT"}
             IN  IF outs = {} THEN <<>>
                 ELSE <<<<i, Min(outs)>>>> \o PairsFrom(logs, Min(outs) + 1)

RECURSIVE SumOfPairs(_, _)
SumOfPairs(logs, pairs) ==
    IF pairs = <<>> THEN 0
    ELSE time_diff_in_hours(logs[pairs[1][1]].time, logs[pairs[1][2]].time)
             + SumOfPairs(logs, Tail(pairs))

StrictEveryValid ==
    /\ HoursDone
    /\ call.check_in_out_type = "Strictly based on Log Type in Employee Checkin"
    /\ call.working_hours_calc_type = "Every Valid Check-in and Check-out"

\* C7: strict log types, every valid pair: total_hours is the sum of the
\* hours of the pairs (first IN while no pair is open, first OUT after it),
\* the pair the last log completes included; in_time is the time of the
\* first IN log; out_time is the OUT time of the last pair, None without one.
C7_PairsByLogType ==
    StrictEveryValid =>
        LET logs == call.logs
            pairs == PairsFrom(logs, 1)
            ins == {i \in DOMAIN logs : logs[i].log_type = "IN"}
        IN  /\ result.total_hours = SumOfPairs(logs, pairs)
            /\ result.in_time = IF ins = {} THEN NoTime ELSE <<logs[Min(ins)].time>>
            /\ result.out_time = IF pairs = <<>> THEN NoTime
                                 ELSE <<logs[pairs[Len(pairs)][2]].time>>

\* two pairs, the second completed by the last log, with worked time
C7_Witness ==
    /\ StrictEveryValid
    /\ Len(PairsFrom(call.logs, 1)) = 2
    /\ PairsFrom(call.logs, 1)[2][2] = Len(call.logs)
    /\ result.total_hours > 0
    /\ result.out_time = <<call.logs[Len(call.logs)].time>>

\* ---- calculate_working_hours_by_shift_type
ShiftDone == call.op = "calculate_working_hours_by_shift_type" /\ ncalls = 1

Max(S) == CHOOSE x \in S : \A y \in S : y <= x

Larger(a, b) == IF a >= b THEN a ELSE b

Smaller(a, b) == IF a <= b THEN a ELSE b

InPositions(logs) == {i \in DOMAIN logs : logs[i].log_type = "IN"}

OutPositions(logs) == {i \in DOMAIN logs : logs[i].log_type = "OUT"}

HasInAndOut(logs) == InPositions(logs) # {} /\ OutPositions(logs) # {}

FirstInTime(logs) == logs[Min(InPositions(logs))].time

LastOutTime(logs) == logs[Max(OutPositions(logs))].time

\* the end of the shift the function works with: 12:00 of the day it runs
\* when that day is a Saturday, else the shift_end of logs[0]
ShiftEndUsed(c) ==
    IF c.today.weekday = 5 THEN c.today.day * 86400 + 12 * 3600 ELSE c.logs[1].shift_end

\* C8: with a first IN and a last OUT, the hours before the lunch deduction
\* are the length of the overlap of [first IN, last OUT] with
\* [shift_start, shift_end]: never negative, never longer than the shift.
C8_ClippedToShift ==
    (ShiftDone /\ HasInAndOut(call.logs)) =>
        LET from == Larger(FirstInTime(call.logs), call.logs[1].shift_start)
            to == Smaller(LastOutTime(call.logs), ShiftEndUsed(call))
        IN  /\ result.hours_before_lunch = Larger(0, time_diff_in_hours(from, to))
            /\ result.hours_before_lunch >= 0
            /\ result.hours_before_lunch
                   <= time_diff_in_hours(call.logs[1].shift_start, ShiftEndUsed(call))

\* C9: the lunch interval of 1.5 hours is subtracted exactly when a first IN
\* and a last OUT exist, the first IN is before shift_end, the hour:minute
\* of the last OUT is later than 13:30 and the day is not a Saturday; a last
\* OUT at or before 13:30 causes no deduction.
C9_LunchDeduction ==
    ShiftDone =>
        LET logs == call.logs
            due == /\ HasInAndOut(logs)
                   /\ FirstInTime(logs) < ShiftEndUsed(call)
                   /\ (LastOutTime(logs) % 86400) \div 60 > 13 * 60 + 30
                   /\ call.today.weekday # 5
        IN  /\ result.lunch_deducted = due
            /\ result.total_hours = result.hours_before_lunch - (IF due THEN 150 ELSE 0)

\* lunch deducted from a day clipped at both ends of the shift
C9_Witness ==
    /\ ShiftDone /\ result.lunch_deducted
    /\ FirstInTime(call.logs) < call.logs[1].shift_start
    /\ LastOutTime(call.logs) > call.logs[1].shift_end
    /\ result.total_hours = 900 - 150

\* ---- EmployeeCheckin.validate_duplicate_log
IsSave == call.op \in {"insert", "save"}

SameLog(a, b) == a.employee = b.employee /\ a.time = b.time /\ a.log_type = b.log_type

\* another record of the store with the employee, time and log_type of doc
Twins(doc) == {n \in DOMAIN checkins : n # doc.name /\ SameLog(checkins[n], doc)}

\* C10: validating an Employee Checkin fails when another record has the
\* same employee, time and log_type, so no two records of the store share
\* the three; a record that differs from the others in one of them, be it
\* only the log_type, is not rejected as a duplicate.
C10_NoDuplicateLogs ==
    /\ \A n, m \in DOMAIN checkins : SameLog(checkins[n], checkins[m]) => n = m
    /\ IsSave =>
          /\ Twins(call.doc) # {} => result.outcome = "raised"
          /\ result.error = "duplicate log" => Twins(call.doc) # {}

\* two records that differ only in log_type are in the store, and a save
\* that would have made one a copy of the other was refused
C10_Witness ==
    /\ IsSave /\ call.op = "save" /\ result.error = "duplicate log"
    /\ \E n, m \in DOMAIN checkins :
          /\ checkins[n].employee = checkins[m].employee
          /\ checkins[n].time = checkins[m].time
          /\ checkins[n].log_type # checkins[m].log_type

\* ---- add_log_based_on_employee_field
IsAddLog(c) == c.op = "add_log_based_on_employee_field"

\* the employees whose attendance_device_id is the value handed over
MatchingEmployees(c) ==
    {i \in DOMAIN EmployeeTable :
        EmployeeTable[i].attendance_device_id = c.employee_field_value}

\* both required arguments are given and an Employee matches
ArgumentsUsable(c) ==
    /\ c.employee_field_value \notin {None, ""}
    /\ c.timestamp \notin {None, ""}
    /\ MatchingEmployees(c) # {}

\* this step added one Employee Checkin, for the matching employee and with
\* the arguments of c, changed no other and returned it
CreatedOne(c) ==
    \E n \in DOMAIN checkins' \ DOMAIN checkins :
        /\ DOMAIN checkins' = DOMAIN checkins \cup {n}
        /\ \A m \in DOMAIN checkins : checkins'[m] = checkins[m]
        /\ \E i \in MatchingEmployees(c) : checkins'[n].employee = EmployeeTable[i].name
        /\ checkins'[n].time = c.timestamp
        /\ checkins'[n].device_id = c.device_id
        /\ checkins'[n].log_type = c.log_type
        /\ checkins'[n].skip_auto_attendance = (IF c.skip_auto_attendance = "1" THEN 1 ELSE 0)
        /\ result'.outcome = "returned"
        /\ result'.value = n

\* this step raised an error and left the Employee Checkin table as it was
RefusedAll == result'.outcome = "raised" /\ checkins' = checkins

\* EmployeeCheckin.validate refuses the document of c: a log of the employee
\* with that time and log_type is in the store, or the employee's shift at
\* that time is strictly based on log type, no log type is given and auto
\* attendance is not skipped
ValidateRefuses(c) ==
    \E i \in MatchingEmployees(c) :
        LET e == EmployeeTable[i].name
        IN  \/ \E m \in DOMAIN checkins :
                  /\ checkins[m].employee = e
                  /\ checkins[m].time = c.timestamp
                  /\ checkins[m].log_type = c.log_type
            \/ /\ shift_actual_timings_of(e, c.timestamp) # NoShift
               /\ shift_actual_timings_of(e, c.timestamp)[1].determine_check_in_and_check_out
                      = "Strictly based on Log Type in Employee Checkin"
               /\ c.log_type = None
               /\ c.skip_auto_attendance # "1"

\* C11 as stated: with both arguments given and a matching Employee one
\* Employee Checkin is created for that employee with the given timestamp,
\* device_id and log_type, skip_auto_attendance set only for the argument 1;
\* otherwise an error is raised and none is created.
C11_CreatesOneOrRefuses ==
    [][IsAddLog(call') =>
          IF ArgumentsUsable(call') THEN CreatedOne(call') ELSE RefusedAll]_vars

\* C11 as amended: the Employee Checkin is created unless validate refuses
\* it; then, as for missing arguments and for no matching Employee, an error
\* is raised and none is created.
C11_CreatesOneUnlessRefused ==
    [][IsAddLog(call') =>
          IF ArgumentsUsable(call') /\ ~ValidateRefuses(call')
          THEN CreatedOne(call') ELSE RefusedAll]_vars

\* a second Employee Checkin created, with a device and auto attendance skipped
C11_Witness ==
    /\ IsAddLog(call) /\ result.outcome = "returned"
    /\ Cardinality(DOMAIN checkins) = 2
    /\ checkins[result.value].device_id = "DEV-1"
    /\ checkins[result.value].skip_auto_attendance = 1
    /\ call.skip_auto_attendance = "1"

\* ---- report employee_leave_balance.execute
ReportDone == call.op = "execute" /\ ncalls = 1

\* emp is active and passes the employee, company and department filters
ActiveAndFiltered(emp, filters) ==
    /\ emp.status = "Active"
    /\ filters.employee # None => emp.name = filters.employee
    /\ filters.company # None => emp.company = filters.company
    /\ filters.department # None => emp.department = filters.department

\* the leave row belongs to an active employee passing the filters and to a
\* Leave Application inside the range of the filters
LeaveRowInScope(row, store, filters) ==
    \E k \in DOMAIN store.leave_applications :
        LET leave == store.leave_applications[k]
        IN  /\ leave.name = row.application
            /\ filters.from_date <= leave.from_date /\ leave.from_date <= filters.to_date
            /\ filters.from_date <= leave.to_date /\ leave.to_date <= filters.to_date
            /\ \E i \in DOMAIN store.employees :
                  /\ store.employees[i].name = leave.employee
                  /\ ActiveAndFiltered(store.employees[i], filters)

\* C12: with to_date <= from_date execute raises and fetches nothing;
\* otherwise it returns (columns, data, None, None) and every leave row of
\* data belongs to an Active employee matching the filters and to a Leave
\* Application whose from_date and to_date lie within the range.
C12_RangeCheckedRowsInScope ==
    ReportDone =>
        IF call.filters.to_date <= call.filters.from_date
        THEN result.outcome = "raised" /\ ~result.fetched
        ELSE /\ result.outcome = "returned"
             /\ result.columns = get_columns
             /\ result.message = None /\ result.charts = None
             /\ \A r \in DOMAIN result.data :
                   result.data[r].kind = "leave" =>
                       LeaveRowInScope(result.data[r], call.store, call.filters)

====
